---------------------------- MODULE Spec2Model ----------------------------
(***************************************************************************)
(* Model of mogbox-core's playback pipeline (crates/runtime/src/lib.rs):   *)
(* AudioPlayer::play builds and starts an output stream whose callback     *)
(* drains a Mutex-protected AudioPlaybackState {samples, position,         *)
(* finished}, and then runs decode_all_samples, which appends one packet's *)
(* normalized samples at a time under the same mutex.                      *)
(*                                                                         *)
(* Two threads are modelled: the caller's thread running play() and        *)
(* decode_all_samples (program counter pc) and the audio driver's thread   *)
(* running the output callback (program counter cpc).                      *)
(***************************************************************************)
EXTENDS Integers, Sequences, FiniteSets, TLC

(* ------------------------------ bounds --------------------------------- *)
\* packets the format reader hands out before it reports an error/EOF
MaxPackets == 2
\* callback invocations made by the audio driver
MaxCallbacks == 2
\* largest output slice (number of f32 slots) handed to one callback
MaxSlots == 2
\* largest frame count and channel count of a decoded buffer whose layout
\* is examined
MaxFrames == 2
MaxChannels == 2

(* ------------------------- f32 values, exactly ------------------------- *)
\* An f32 is modelled exactly as a dyadic number <<m, e>> = m / 2^e with
\* e >= 0 and m odd unless e = 0.  All values in play have |m| <= 2^24.
RECURSIVE Dy(_, _)
Dy(m, e) == IF m = 0 THEN <<0, 0>>
            ELSE IF e > 0 /\ m % 2 = 0 THEN Dy(m \div 2, e - 1)
            ELSE <<m, e>>

Neg(x) == <<-x[1], x[2]>>

\* the f32 literal 0.0 written into a slot when no sample is available
Zero == <<0, 0>>

\* 2^24: f32 keeps 24 significant bits
F32Sig == 16777216

\* round a / 2^s (a >= 0, given as quotient q and remainder r of a by
\* d = 2^s) to the nearest integer, ties to even
RoundHalfEven(q, r, d) ==
    IF 2 * r < d THEN q
    ELSE IF 2 * r > d THEN q + 1
    ELSE IF q % 2 = 0 THEN q ELSE q + 1

\* a non-negative integer a < 2^31 converted to f32 (`as f32`), returned as
\* <<M, s>> with value M * 2^s, M <= 2^24
RECURSIVE IntToF32(_, _, _)
IntToF32(a, s, d) ==
    IF a \div d < F32Sig THEN <<RoundHalfEven(a \div d, a % d, d), s>>
    ELSE IntToF32(a, s + 1, 2 * d)

(* ------------------------- sample normalisation ------------------------ *)
\* the five AudioBufferRef variants the match handles
SupportedFormats == {"F32", "S16", "U8", "S32", "S24"}

MinI32 == -2147483647 - 1
MaxI32 == 2147483647

\* `sample as f32 / 32768.0` (exact: 16-bit integer over 2^15)
NormS16(v) == Dy(v, 15)

\* mutation: the bias of the unsigned format is not subtracted
NormU8NoBias(v) == Dy(v, 7)

\* `(sample as f32 - 128.0) / 128.0` (exact)
NormU8(v) == Dy(v - 128, 7)

\* `sample as f32 / 2147483648.0`: the i32 is first rounded to f32, the
\* division by 2^31 is then exact
NormS32(v) ==
    IF v = MinI32 THEN <<-1, 0>>
    ELSE LET f == IntToF32(IF v < 0 THEN -v ELSE v, 0, 1)
             \* value M * 2^s / 2^31; s <= 7 so the exponent stays >= 0
             x == Dy(f[1], 31 - f[2])
         IN  IF v < 0 THEN Neg(x) ELSE x


\* ---- the S24 arm: i24 -> Debug string -> trim -> parse::<i32> -> f32 ----
DigitChars == <<"0", "1", "2", "3", "4", "5", "6", "7", "8", "9">>

RECURSIVE NatToStr(_)
NatToStr(n) == IF n < 10 THEN <<DigitChars[n + 1]>>
               ELSE NatToStr(n \div 10) \o <<DigitChars[(n % 10) + 1]>>

\* `format!("{:?}", sample_i24)` for symphonia's tuple struct i24(i32)
DebugI24(v) ==
    <<"i", "2", "4", "(">> \o
    (IF v < 0 THEN <<"-">> \o NatToStr(-v) ELSE NatToStr(v)) \o <<")">>

IsPrefix(p, s) == Len(p) <= Len(s) /\ SubSeq(s, 1, Len(p)) = p
IsSuffix(p, s) ==
    Len(p) <= Len(s) /\ SubSeq(s, Len(s) - Len(p) + 1, Len(s)) = p

\* str::trim_start_matches: strip the pattern repeatedly from the front
RECURSIVE TrimStartMatches(_, _)
TrimStartMatches(s, p) ==
    IF IsPrefix(p, s) THEN TrimStartMatches(SubSeq(s, Len(p) + 1, Len(s)), p)
    ELSE s

\* str::trim_end_matches: strip the pattern repeatedly from the back
RECURSIVE TrimEndMatches(_, _)
TrimEndMatches(s, p) ==
    IF IsSuffix(p, s) THEN TrimEndMatches(SubSeq(s, 1, Len(s) - Len(p)), p)
    ELSE s

IsDigit(c) == \E i \in 1..10 : DigitChars[i] = c
DigitVal(c) == (CHOOSE i \in 1..10 : DigitChars[i] = c) - 1

\* accumulate the digits of s from index i; neg selects the negative
\* accumulation i32::from_str uses; any non-digit or overflow is an Err
RECURSIVE ParseDigits(_, _, _, _)
ParseDigits(s, i, acc, neg) ==
    IF i > Len(s) THEN [ok |-> TRUE, value |-> acc]
    ELSE IF ~IsDigit(s[i]) THEN [ok |-> FALSE, value |-> 0]
    ELSE LET d == DigitVal(s[i])
         IN  IF neg
             THEN IF acc < (MinI32 + d + 9) \div 10
                  THEN [ok |-> FALSE, value |-> 0]
                  ELSE ParseDigits(s, i + 1, acc * 10 - d, neg)
             ELSE IF acc > (MaxI32 - d) \div 10
                  THEN [ok |-> FALSE, value |-> 0]
                  ELSE ParseDigits(s, i + 1, acc * 10 + d, neg)

\* str::parse::<i32>: optional sign, then at least one digit
ParseI32(s) ==
    IF s = <<>> THEN [ok |-> FALSE, value |-> 0]
    ELSE IF s[1] \in {"+", "-"}
         THEN IF Len(s) = 1 THEN [ok |-> FALSE, value |-> 0]
              ELSE ParseDigits(s, 2, 0, s[1] = "-")
         ELSE ParseDigits(s, 1, 0, FALSE)

\* the divisor 8388607.0 of the S24 arm
S24Scale == 8388607
\* 2^23: a quotient with 24 significant bits is at least this
F32Half == 8388608

\* binary long division of a (0 < a <= 2^24) by S24Scale until the quotient
\* has 24 significant bits: q = floor(a * 2^e / S24Scale), r the remainder
RECURSIVE DivBits(_, _, _)
DivBits(q, r, e) ==
    IF q >= F32Half THEN <<q, r, e>>
    ELSE IF 2 * r >= S24Scale THEN DivBits(2 * q + 1, 2 * r - S24Scale, e + 1)
    ELSE DivBits(2 * q, 2 * r, e + 1)

\* f32 division `a / 8388607.0` of a non-negative f32 integer a <= 2^24,
\* rounded to nearest (the divisor is odd, so there are no ties)
DivByS24Scale(a) ==
    IF a = 0 THEN Zero
    ELSE LET d == DivBits(a \div S24Scale, a % S24Scale, 0)
             q == IF 2 * d[2] > S24Scale THEN d[1] + 1 ELSE d[1]
         IN  Dy(q, d[3])

\* `value as f32 / 8388607.0` for the parsed i32 (|value| <= 2^24 here: an
\* i24 holds -8388608..8388607, which f32 represents exactly)
NormS24Value(v) ==
    IF v < 0 THEN Neg(DivByS24Scale(-v)) ELSE DivByS24Scale(v)

\* the whole S24 inner-loop body: the samples it pushes (one or none)
NormS24(v) ==
    LET debug_str == DebugI24(v)
        parsed == ParseI32(TrimEndMatches(
                      TrimStartMatches(debug_str, <<"i", "2", "4", "(">>),
                      <<")">>))
    IN  IF parsed.ok THEN <<NormS24Value(parsed.value)>> ELSE <<>>

\* what one inner-loop iteration pushes for native value v of format fmt
ConvertSample(fmt, v) ==
    CASE fmt = "F32" -> <<v>>
      [] fmt = "S16" -> <<NormS16(v)>>
      [] fmt = "U8"  -> <<NormU8(v)>>
      [] fmt = "S32" -> <<NormS32(v)>>
      [] fmt = "S24" -> NormS24(v)
      [] OTHER       -> <<>>

\* `for ch in 0..num_channels` for one frame (ch and frame are 0-based;
\* buf.chan[ch + 1][frame + 1] is audio_buf.chan(ch)[frame])
RECURSIVE ChannelLoop(_, _, _)
ChannelLoop(buf, frame, ch) ==
    IF ch >= buf.channels THEN <<>>
    ELSE ConvertSample(buf.fmt, buf.chan[ch + 1][frame + 1])
         \o ChannelLoop(buf, frame, ch + 1)

\* mutation: the loops are nested the other way round (channel by channel)
FrameLoopPlanar(buf, frame) ==
    [j \in 1..(buf.frames * buf.channels) |->
        ConvertSample(buf.fmt,
                      buf.chan[((j - 1) \div buf.frames) + 1]
                              [((j - 1) % buf.frames) + 1])[1]]

\* `for frame in 0..num_frames`
RECURSIVE FrameLoop(_, _)
FrameLoop(buf, frame) ==
    IF frame >= buf.frames THEN <<>>
    ELSE ChannelLoop(buf, frame, 0) \o FrameLoop(buf, frame + 1)

\* mutation: the `_` arm pushes one 0.0 per frame and channel
NormalizePadUnsupported(buf) ==
    IF buf.fmt \in SupportedFormats THEN FrameLoop(buf, 0)
    ELSE [i \in 1..(buf.frames * buf.channels) |-> Zero]

\* the local `samples` vector built from one decoded buffer; the `_` arm
\* pushes nothing
Normalize(buf) ==
    IF buf.fmt \in SupportedFormats THEN FrameLoop(buf, 0) ELSE <<>>

\* mutation: the running total counts samples instead of frames
FramesCountedPerSample(buf) ==
    IF buf.fmt \in SupportedFormats THEN buf.frames * buf.channels ELSE 0

\* the increment of sample_count for one decoded buffer
FramesCounted(buf) ==
    IF buf.fmt \in SupportedFormats THEN buf.frames ELSE 0


(* ------------------------- inputs of the model ------------------------- *)
\* track ids a packet of the container may carry
TrackIds == {0, 1}

\* the id of the container's default track, which AudioFile::open selects
DefaultTrack == 0

\* buffers Decoder::decode may hand back (planar: chan[ch + 1][frame + 1]):
\* two frames of one channel, one frame of two channels (whose second
\* sample normalizes to 0.0, the value of silence), a single sample, an
\* empty buffer, and "F64" for the AudioBufferRef variants the match does
\* not handle
DecodedBuffers ==
    { [fmt |-> "S16", frames |-> 2, channels |-> 1,
       chan |-> << <<8192, -32768>> >>],
      [fmt |-> "U8",  frames |-> 1, channels |-> 2,
       chan |-> << <<255>>, <<128>> >>],
      [fmt |-> "S24", frames |-> 1, channels |-> 1,
       chan |-> << <<-8388608>> >>],
      [fmt |-> "S16", frames |-> 0, channels |-> 1,
       chan |-> << <<>> >>],
      [fmt |-> "F64", frames |-> 1, channels |-> 1,
       chan |-> << <<3>> >>] }

\* two native values per format, enough to tell every slot of a decoded
\* buffer from every other
LayoutValues(fmt) ==
    CASE fmt = "F32" -> {<<1, 1>>, <<-1, 0>>}
      [] fmt = "S16" -> {16384, -32768}
      [] fmt = "U8"  -> {255, 0}
      [] fmt = "S32" -> {1073741824, MinI32}
      [] fmt = "S24" -> {8388607, -4194304}

\* native values of each format: all of u8; for the wider formats the ends
\* of the range, zero and its neighbours, powers of two and, for S32, the
\* values around 2^24 where `as f32` starts to round
EdgeValues(fmt) ==
    CASE fmt = "F32" -> {Zero, <<1, 1>>, <<-1, 0>>, <<1, 0>>, <<3, 0>>,
                         <<-1, 24>>}
      [] fmt = "S16" -> {-32768, -32767, -16384, -12345, -1, 0, 1, 3, 8192,
                         12345, 16384, 32766, 32767}
      [] fmt = "U8"  -> 0..255
      [] fmt = "S32" -> {MinI32, MinI32 + 1, MinI32 + 64, MinI32 + 65,
                         -1073741824, -16777217, -16777216, -1, 0, 1, 3,
                         16777215, 16777216, 16777217, 16777219, 33554434,
                         1073741824, 2147483519, 2147483520, 2147483583,
                         2147483584, MaxI32 - 1, MaxI32}
      [] fmt = "S24" -> {-8388608, -8388607, -8388606, -4194304, -4194303,
                         -1234567, -1, 0, 1, 3, 1234567, 4194303, 4194304,
                         8388606, 8388607}

\* decoded buffers of every supported format with up to MaxFrames frames of
\* up to MaxChannels channels
LayoutBuffers ==
    UNION { { [fmt |-> f, frames |-> nf, channels |-> nc, chan |-> ch] :
                ch \in [1..nc -> [1..nf -> LayoutValues(f)]] } :
            f \in SupportedFormats, nf \in 0..MaxFrames,
            nc \in 1..MaxChannels }

\* decoded buffers holding one sample
SingleSampleBuffers ==
    UNION { { [fmt |-> f, frames |-> 1, channels |-> 1,
               chan |-> << <<v>> >>] : v \in EdgeValues(f) } :
            f \in SupportedFormats }

\* what the `Err(..)` arms of the decode loop can be handed: an I/O error
\* of any kind (end of stream is IoError with kind UnexpectedEof; "Other"
\* stands for every other io::ErrorKind, e.g. a failed read) or an error
\* of another variant
EndOfStream == "IoError(UnexpectedEof)"
IoErrors == {EndOfStream, "IoError(Other)"}
OtherErrors == {"DecodeError"}
NoError == "none"

NoPacket == [track_id |-> -1]
NoBuffer == [fmt |-> "none", frames |-> 0, channels |-> 0, chan |-> <<>>]

(* ------------------------------- state --------------------------------- *)
VARIABLES
    track_id,      \* audio_file.track_id, the selected track
    stream,        \* the cpal Stream: "none", "built", "playing", "dropped"
    pc,            \* where the thread running play() is
    result,        \* what play() returned: "none", "ok" or the error text
    packets_read,  \* packets handed out by format.next_packet() so far
    packet,        \* the local `packet` of the decode loop
    decoded,       \* the buffer returned by the last decoder.decode()
    decode_calls,  \* number of decoder.decode() invocations
    local,         \* the local `samples` vector of the decode loop
    sample_count,  \* the running frame total of decode_all_samples
    warnings,      \* "Unsupported audio format in packet" lines on stderr
    err,           \* the Err value matched by the arm that ended the loop
    fed,           \* <<fmt, frames, channels>> of every buffer decode() returned
    samples,       \* AudioPlaybackState.samples
    position,      \* AudioPlaybackState.position
    finished,      \* AudioPlaybackState.finished
    lock,          \* holder of the Mutex: "free", "producer", "consumer"
    cpc,           \* where the callback thread is: "idle", "lock", "fill"
    k,             \* output.len() of the callback in progress
    slot,          \* slots of `output` written so far by this callback
    output,        \* the slots written so far by this callback
    cbPos,         \* position when this callback took the lock
    cbLen,         \* samples.len() when this callback took the lock
    callbacks,     \* callbacks started so far
    delivered      \* every slot written so far: <<"sample" | "silence", f32>>

prodVars == <<track_id, stream, pc, result, packets_read, packet, decoded,
              decode_calls, local, sample_count, warnings, err, fed>>
consVars == <<cpc, k, slot, output, cbPos, cbLen, callbacks, delivered>>
vars == <<track_id, stream, pc, result, packets_read, packet, decoded,
          decode_calls, local, sample_count, warnings, err, fed, samples,
          position, finished, lock, cpc, k, slot, output, cbPos, cbLen,
          callbacks, delivered>>

Init ==
    /\ track_id = DefaultTrack
    /\ stream = "none"
    /\ pc = "device"
    /\ result = "none"
    /\ packets_read = 0
    /\ packet = NoPacket
    /\ decoded = NoBuffer
    /\ decode_calls = 0
    /\ local = <<>>
    /\ sample_count = 0
    /\ warnings = 0
    /\ err = NoError
    /\ fed = <<>>
    /\ samples = <<>>
    /\ position = 0
    /\ finished = FALSE
    /\ lock = "free"
    /\ cpc = "idle"
    /\ k = 0
    /\ slot = 0
    /\ output = <<>>
    /\ cbPos = 0
    /\ cbLen = 0
    /\ callbacks = 0
    /\ delivered = <<>>

(* ----------------------- helpers of the two threads -------------------- *)
\* mutation: lock() returns without waiting for the holder
CanAcquireAlways(holder) == TRUE

\* Mutex::lock returns only when no one holds the mutex
CanAcquire(holder) == holder = "free"

\* mutation: the guard is leaked (mem::forget), the mutex stays locked
ReleasedNever(holder) == holder

\* the MutexGuard going out of scope
Released(holder) == "free"

\* mutation: the track filter is missing
TrackMatchesAny(pkt, selected) == TRUE

\* `packet.track_id() != audio_file.track_id` is false
TrackMatches(pkt, selected) == pkt.track_id = selected

\* mutation: the new samples replace the stored ones (`=` for `extend`)
ExtendSamplesReplace(stored, new) == new

\* mutation: the new samples are inserted in front of the stored ones
ExtendSamplesPrepend(stored, new) == new \o stored

\* `state.samples.extend(samples)`
ExtendSamples(stored, new) == stored \o new

\* mutation: the last stored sample is never handed out
HasSampleButLast(pos, stored) == pos + 1 < Len(stored)

\* `state.position < state.samples.len()`
HasSample(pos, stored) == pos < Len(stored)

\* mutation: the read ignores the cursor and returns the newest sample
SlotValueNewest(stored, pos) == stored[Len(stored)]

\* `state.samples[state.position]` (Rust indexes from 0)
SlotValue(stored, pos) == stored[pos + 1]

\* mutation: playback loops, the cursor wraps to 0 at the end
NextPositionWrap(pos, stored) == IF pos + 1 >= Len(stored) THEN 0 ELSE pos + 1

\* mutation: the cursor advances by a whole stereo frame per slot
NextPositionSkip(pos, stored) == pos + 2

\* `state.position += 1`
NextPosition(pos, stored) == pos + 1

\* mutation: past the end the callback repeats the last sample
SilenceValueHold(stored) ==
    IF stored = <<>> THEN Zero ELSE stored[Len(stored)]

\* the value of the else branch, `*sample = 0.0`
SilenceValue(stored) == Zero

\* mutation: the stream outlives the error return (leaked or kept in a
\* static)
DroppedLeak(s) == s

\* `stream` going out of scope: cpal stops and destroys the output stream
Dropped(s) == "dropped"

(* ------------------- the thread running AudioPlayer::play -------------- *)
\* mutation: the error is returned with the stream left running
FailNoDrop(msg) ==
    /\ result' = msg
    /\ pc' = "done_err"

\* an error return of play(): `?` leaves the function, which drops `stream`
\* if it exists; DropStream does that before the caller sees the error
Fail(msg) ==
    /\ result' = msg
    /\ pc' = IF stream = "none" THEN "done_err" ELSE "drop_stream"

\* host.default_output_device().ok_or(..)?
GetDevice ==
    /\ pc = "device"
    /\ \/ /\ pc' = "build"
          /\ UNCHANGED result
       \/ Fail("no output device available")
    /\ UNCHANGED <<err, fed, track_id, stream, packets_read, packet, decoded,
                   decode_calls, local, sample_count, warnings, samples,
                   position, finished, lock>>
    /\ UNCHANGED consVars

\* device.build_output_stream(..).map_err(..)?
BuildStream ==
    /\ pc = "build"
    /\ \/ /\ stream' = "built"
          /\ pc' = "start"
          /\ UNCHANGED result
       \/ /\ Fail("failed to build output stream")
          /\ UNCHANGED stream
    /\ UNCHANGED <<err, fed, track_id, packets_read, packet, decoded, decode_calls,
                   local, sample_count, warnings, samples, position,
                   finished, lock>>
    /\ UNCHANGED consVars

\* stream.play().map_err(..)?
StartStream ==
    /\ pc = "start"
    /\ \/ /\ stream' = "playing"
          /\ pc' = "next_packet"
          /\ UNCHANGED result
       \/ /\ Fail("failed to play stream")
          /\ UNCHANGED stream
    /\ UNCHANGED <<err, fed, track_id, packets_read, packet, decoded, decode_calls,
                   local, sample_count, warnings, samples, position,
                   finished, lock>>
    /\ UNCHANGED consVars

\* audio_file.format.next_packet(): a packet, Err(IoError) (end of stream,
\* `break`) or another error (`return Err`)
NextPacket ==
    /\ pc = "next_packet"
    /\ \/ /\ packets_read < MaxPackets
          /\ \E tid \in TrackIds : packet' = [track_id |-> tid]
          /\ packets_read' = packets_read + 1
          /\ pc' = "filter"
          /\ UNCHANGED result
          /\ UNCHANGED err
       \/ /\ \E e \in IoErrors : err' = e
          /\ pc' = "ret_ok"
          /\ UNCHANGED <<packet, packets_read, result>>
       \/ /\ \E e \in OtherErrors : err' = e
          /\ Fail("failed to get packet")
          /\ UNCHANGED <<packet, packets_read>>
    /\ UNCHANGED <<fed, track_id, stream, decoded, decode_calls, local,
                   sample_count, warnings, samples, position, finished,
                   lock>>
    /\ UNCHANGED consVars

\* `if packet.track_id() != audio_file.track_id { continue; }`
FilterPacket ==
    /\ pc = "filter"
    /\ IF TrackMatches(packet, track_id)
       THEN pc' = "decode" /\ UNCHANGED packet
       ELSE pc' = "next_packet" /\ packet' = NoPacket
    /\ UNCHANGED <<err, fed, track_id, stream, result, packets_read, decoded,
                   decode_calls, local, sample_count, warnings, samples,
                   position, finished, lock>>
    /\ UNCHANGED consVars

\* audio_file.decoder.decode(&packet): a buffer, Err(IoError) (`break`) or
\* another error (`return Err`)
DecodePacket ==
    /\ pc = "decode"
    /\ decode_calls' = decode_calls + 1
    /\ \/ /\ \E buf \in DecodedBuffers :
                /\ decoded' = buf
                /\ fed' = Append(fed, <<buf.fmt, buf.frames, buf.channels>>)
          /\ pc' = "normalize"
          /\ UNCHANGED <<result, packet, err>>
       \/ /\ \E e \in IoErrors : err' = e
          /\ pc' = "ret_ok"
          /\ packet' = NoPacket
          /\ UNCHANGED <<decoded, result, fed>>
       \/ /\ \E e \in OtherErrors : err' = e
          /\ Fail("failed to decode packet")
          /\ packet' = NoPacket
          /\ UNCHANGED <<decoded, fed>>
    /\ UNCHANGED <<track_id, stream, packets_read, local,
                   sample_count, warnings, samples, position, finished,
                   lock>>
    /\ UNCHANGED consVars

\* the `match audio_buf_ref` that fills the local vector, then the test
\* `if !samples.is_empty()` that decides whether the mutex is taken at all;
\* when it is not, the iteration ends and its locals go out of scope
NormalizePacket ==
    /\ pc = "normalize"
    /\ sample_count' = sample_count + FramesCounted(decoded)
    /\ warnings' = IF decoded.fmt \in SupportedFormats THEN warnings
                   ELSE warnings + 1
    /\ local' = Normalize(decoded)
    /\ pc' = IF Normalize(decoded) # <<>> THEN "lock" ELSE "next_packet"
    /\ packet' = IF Normalize(decoded) # <<>> THEN packet ELSE NoPacket
    /\ decoded' = IF Normalize(decoded) # <<>> THEN decoded ELSE NoBuffer
    /\ UNCHANGED <<err, fed, track_id, stream, result, packets_read,
                   decode_calls, samples, position, finished, lock>>
    /\ UNCHANGED consVars

\* `let mut state = state.lock().unwrap();`
ProducerLock ==
    /\ pc = "lock"
    /\ CanAcquire(lock)
    /\ lock' = "producer"
    /\ pc' = "extend"
    /\ UNCHANGED <<err, fed, track_id, stream, result, packets_read, packet, decoded,
                   decode_calls, local, sample_count, warnings, samples,
                   position, finished>>
    /\ UNCHANGED consVars

\* `state.samples.extend(samples);` and the guard dropped at the end of
\* the block; the iteration ends and its locals go out of scope
ProducerExtend ==
    /\ pc = "extend"
    /\ samples' = ExtendSamples(samples, local)
    /\ lock' = Released(lock)
    /\ pc' = "next_packet"
    /\ packet' = NoPacket
    /\ decoded' = NoBuffer
    /\ local' = <<>>
    /\ UNCHANGED <<err, fed, track_id, stream, result, packets_read,
                   decode_calls, sample_count, warnings, position,
                   finished>>
    /\ UNCHANGED consVars

\* println!("Decoded ..."); Ok(()) and then Ok(AudioPlayer { _stream })
ReturnOk ==
    /\ pc = "ret_ok"
    /\ result' = "ok"
    /\ pc' = "done_ok"
    /\ err' = NoError
    /\ UNCHANGED <<fed, track_id, stream, packets_read, packet, decoded,
                   decode_calls, local, sample_count, warnings, samples,
                   position, finished, lock>>
    /\ UNCHANGED consVars

\* the local `stream` dropped on an error return: the driver stops calling
\* the callback; a callback in progress finishes first
DropStream ==
    /\ pc = "drop_stream"
    /\ cpc = "idle"
    /\ stream' = Dropped(stream)
    /\ pc' = "done_err"
    /\ err' = NoError
    /\ UNCHANGED <<fed, track_id, result, packets_read, packet, decoded,
                   decode_calls, local, sample_count, warnings, samples,
                   position, finished, lock>>
    /\ UNCHANGED consVars

(* ------------------- the audio driver's callback thread ---------------- *)
\* the driver invokes the data callback with an output slice of n slots,
\* n >= least; `counted` tells whether the invocation uses up one of the
\* MaxCallbacks invocations the driver is allowed
BeginCallback(least, counted) ==
    /\ cpc = "idle"
    /\ stream \in {"built", "playing"}
    /\ counted => callbacks < MaxCallbacks
    /\ \E n \in least..MaxSlots : k' = n
    /\ callbacks' = IF counted THEN callbacks + 1 ELSE callbacks
    /\ slot' = 0
    /\ output' = <<>>
    /\ cpc' = "lock"
    /\ UNCHANGED <<cbPos, cbLen, delivered>>
    /\ UNCHANGED prodVars
    /\ UNCHANGED <<samples, position, finished, lock>>

CallbackBegin == BeginCallback(0, TRUE)

\* `let mut state = state_clone.lock().unwrap();`
CallbackLock ==
    /\ cpc = "lock"
    /\ CanAcquire(lock)
    /\ lock' = "consumer"
    /\ cbPos' = position
    /\ cbLen' = Len(samples)
    /\ cpc' = "fill"
    /\ UNCHANGED <<k, slot, output, callbacks, delivered>>
    /\ UNCHANGED prodVars
    /\ UNCHANGED <<samples, position, finished>>

\* mutation: the flag is never set
FinishedOnSilenceNever(flag) == flag

\* `state.finished = true`
FinishedOnSilence(flag) == TRUE

\* one iteration of `for sample in output.iter_mut()`; `logged` tells
\* whether the write is recorded in the history `delivered`
FillSlot(logged) ==
    /\ cpc = "fill"
    /\ slot < k
    /\ IF HasSample(position, samples)
       THEN /\ output' = Append(output, SlotValue(samples, position))
            /\ delivered' =
                  IF logged
                  THEN Append(delivered,
                              <<"sample", SlotValue(samples, position)>>)
                  ELSE delivered
            /\ position' = NextPosition(position, samples)
            /\ UNCHANGED finished
       ELSE /\ output' = Append(output, SilenceValue(samples))
            /\ delivered' =
                  IF logged
                  THEN Append(delivered, <<"silence", SilenceValue(samples)>>)
                  ELSE delivered
            /\ finished' = FinishedOnSilence(finished)
            /\ UNCHANGED position
    /\ slot' = slot + 1
    /\ UNCHANGED <<cpc, k, cbPos, cbLen, callbacks>>
    /\ UNCHANGED prodVars
    /\ UNCHANGED <<samples, lock>>

CallbackSlot == FillSlot(TRUE)

\* the loop is over; the closure returns, the guard is dropped and the
\* output slice goes back to the driver
CallbackEnd ==
    /\ cpc = "fill"
    /\ slot = k
    /\ lock' = Released(lock)
    /\ cpc' = "idle"
    /\ k' = 0
    /\ slot' = 0
    /\ output' = <<>>
    /\ cbPos' = 0
    /\ cbLen' = 0
    /\ UNCHANGED <<callbacks, delivered>>
    /\ UNCHANGED prodVars
    /\ UNCHANGED <<samples, position, finished>>

Next ==
    \/ GetDevice
    \/ BuildStream
    \/ StartStream
    \/ NextPacket
    \/ FilterPacket
    \/ DecodePacket
    \/ NormalizePacket
    \/ ProducerLock
    \/ ProducerExtend
    \/ ReturnOk
    \/ DropStream
    \/ CallbackBegin
    \/ CallbackLock
    \/ CallbackSlot
    \/ CallbackEnd

Spec == Init /\ [][Next]_vars

\* The driver of a live stream goes on invoking the callback for ever, each
\* time with at least one slot.  The history `delivered` and the count
\* `callbacks` are not kept here, so that the invocations need no bound.
DrainCallbackBegin == BeginCallback(1, FALSE)
DrainCallbackSlot == FillSlot(FALSE)

DrainNext ==
    \/ GetDevice
    \/ BuildStream
    \/ StartStream
    \/ NextPacket
    \/ FilterPacket
    \/ DecodePacket
    \/ NormalizePacket
    \/ ProducerLock
    \/ ProducerExtend
    \/ ReturnOk
    \/ DropStream
    \/ DrainCallbackBegin
    \/ CallbackLock
    \/ DrainCallbackSlot
    \/ CallbackEnd

\* the steps of play() that wait for nothing but the processor: appending
\* under the held mutex and returning (reading and decoding a packet may
\* block on I/O for any length of time and get no fairness)
ProducerStep ==
    \/ ProducerExtend
    \/ ReturnOk
    \/ DropStream

\* Both threads keep running and the driver keeps invoking the callback
\* while the stream lives; a thread blocked in Mutex::lock gets the mutex
\* once it is released often enough.
DrainSpec ==
    /\ Init
    /\ [][DrainNext]_vars
    /\ WF_vars(ProducerStep)
    /\ SF_vars(ProducerLock)
    /\ WF_vars(DrainCallbackBegin)
    /\ SF_vars(CallbackLock)
    /\ WF_vars(DrainCallbackSlot)
    /\ WF_vars(CallbackEnd)

\* The conversion of one decoded buffer on its own: the producer has just
\* decoded its first packet into any of the buffers above, converts it and
\* appends the result.
NormInit ==
    /\ track_id = DefaultTrack
    /\ stream = "playing"
    /\ pc = "normalize"
    /\ result = "none"
    /\ packets_read = 1
    /\ packet = [track_id |-> DefaultTrack]
    /\ decoded \in LayoutBuffers \cup SingleSampleBuffers
    /\ decode_calls = 1
    /\ local = <<>>
    /\ sample_count = 0
    /\ warnings = 0
    /\ err = NoError
    /\ fed = <<<<decoded.fmt, decoded.frames, decoded.channels>>>>
    /\ samples = <<>>
    /\ position = 0
    /\ finished = FALSE
    /\ lock = "free"
    /\ cpc = "idle"
    /\ k = 0
    /\ slot = 0
    /\ output = <<>>
    /\ cbPos = 0
    /\ cbLen = 0
    /\ callbacks = 0
    /\ delivered = <<>>

NormNext ==
    \/ NormalizePacket
    \/ ProducerLock
    \/ ProducerExtend

NormSpec == NormInit /\ [][NormNext]_vars

\* Both threads are scheduled by the operating system: a thread that can
\* take a step eventually takes it, and a thread blocked in Mutex::lock
\* gets the mutex once it is released often enough.
FairSpec ==
    /\ Spec
    /\ WF_vars(ProducerExtend)
    /\ SF_vars(CallbackLock)
    /\ WF_vars(CallbackSlot)
    /\ WF_vars(CallbackEnd)


(* ------------------------------ properties ----------------------------- *)
IsSampleEntry(e) == e[1] = "sample"
IsSilenceEntry(e) == e[1] = "silence"
Min(a, b) == IF a < b THEN a ELSE b
Zeros(n) == [i \in 1..n |-> Zero]

\* C1: in every reachable state the read cursor is at most the current
\* length of the sample sequence, so that whenever the callback takes the
\* branch that reads samples[position] the index is inside the sequence.
C1_CursorWithinLength ==
    /\ position >= 0
    /\ position <= Len(samples)
    /\ (cpc = "fill" /\ slot < k /\ HasSample(position, samples)
           => position + 1 \in DOMAIN samples)

\* the cursor has caught up with a sequence that was appended to twice,
\* and silence has been emitted
C1_Witness ==
    /\ position = Len(samples)
    /\ Len(samples) >= 3
    /\ finished

\* C2: no step of either thread decreases the read cursor.
C2_CursorMonotonic == [][position' >= position]_vars

\* the cursor has advanced in two callbacks with an append after the first
\* read, and more has been appended than was read
C2_Witness ==
    /\ position >= 3
    /\ Len(samples) > position
    /\ callbacks >= 2

\* C3: the values written by the sample branch of the callback, in the
\* order they were written over the whole session, are exactly
\* samples[0 .. position): nothing skipped, duplicated or reordered.
C3_DeliveredInOrder ==
    LET d == SelectSeq(delivered, IsSampleEntry)
    IN  /\ Len(d) = position
        /\ position <= Len(samples)
        /\ \A i \in 1..Len(d) : d[i][2] = samples[i]

\* samples of two different appends were delivered, with silence between
C3_Witness ==
    /\ position >= 3
    /\ \E i \in 1..Len(delivered) : \E j \in 1..Len(delivered) :
          /\ i < j
          /\ IsSampleEntry(delivered[i])
          /\ \E h \in (i + 1)..(j - 1) : IsSilenceEntry(delivered[h])
          /\ IsSampleEntry(delivered[j])

\* C4: every step leaves the old sample sequence as a prefix of the new
\* one; a step of the callback leaves it unchanged; the only step that
\* changes it is the producer's append, which adds the normalized samples
\* of the packet just decoded at the end.
C4_AppendOnly ==
    [][ /\ IsPrefix(samples, samples')
        /\ (cpc' # cpc \/ slot' # slot => samples' = samples)
        /\ (samples' # samples =>
               /\ pc = "extend"
               /\ samples' = samples \o Normalize(decoded)) ]_vars

\* two packets were appended while the callback was reading
C4_Witness ==
    /\ packets_read = 2
    /\ Len(samples) = 4
    /\ position > 0
    /\ pc = "next_packet"

\* C5: a callback that took the lock at cursor p and length L has, after
\* writing s slots, written samples[p .. p+m) followed by s-m zeros where
\* m = min(s, L-p), and the cursor is p+m; in particular (s = k) at the end
\* of the callback, and no sample follows a silence slot.
C5_CallbackFill ==
    cpc = "fill" =>
        LET m == Min(slot, cbLen - cbPos)
            tail == SubSeq(delivered, Len(delivered) - slot + 1,
                           Len(delivered))
        IN  /\ Len(output) = slot
            /\ output = SubSeq(samples, cbPos + 1, cbPos + m)
                          \o Zeros(slot - m)
            /\ position = cbPos + m
            /\ \A i \in 1..slot :
                  /\ tail[i][2] = output[i]
                  /\ (i <= m <=> IsSampleEntry(tail[i]))

\* a finished callback that got one sample and had to pad one slot
C5_Witness ==
    /\ cpc = "fill"
    /\ slot = k
    /\ k = 2
    /\ cbLen - cbPos = 1

\* C6: a slot written when the cursor equals the sequence length is 0.0 and
\* leaves cursor and samples unchanged, and so do the steps that begin and
\* end a callback; so consecutive callbacks at the end change nothing.
C6_SilenceAtEnd ==
    [][ /\ (cpc = "fill" /\ slot' = slot + 1 /\ position = Len(samples)
               => /\ position' = position
                  /\ samples' = samples
                  /\ output'[slot'] = Zero
                  /\ delivered' = Append(delivered, <<"silence", Zero>>))
        /\ (cpc' # cpc => position' = position /\ samples' = samples) ]_vars

\* the second of two consecutive callbacks at the end of a non-empty
\* sequence has written only silence, as the last slot before it was
C6_Witness ==
    /\ callbacks = 2
    /\ cpc = "fill"
    /\ slot = k
    /\ k = 2
    /\ cbPos = cbLen
    /\ cbLen > 0
    /\ Len(delivered) >= 3
    /\ \A i \in (Len(delivered) - 2)..Len(delivered) :
          IsSilenceEntry(delivered[i])

\* C7: the append and the fill are critical sections of one lock: never
\* both at once, each only while holding the lock, and the sequence length
\* stays what it was when the callback took the lock for its whole fill.
C7_MutualExclusion ==
    /\ ~(pc = "extend" /\ cpc = "fill")
    /\ (pc = "extend" => lock = "producer")
    /\ (cpc = "fill" => lock = "consumer" /\ Len(samples) = cbLen)

\* the producer is waiting to append while a fill is half done
C7_Witness ==
    /\ pc = "lock"
    /\ cpc = "fill"
    /\ slot = 1
    /\ k = 2


C9_OtherTrackIgnored ==
    /\ [](pc \in {"decode", "normalize", "lock", "extend"}
             => packet.track_id = track_id)
    /\ [][pc = "filter" /\ packet.track_id # track_id /\ pc' # pc
             => /\ samples' = samples
                /\ position' = position
                /\ sample_count' = sample_count
                /\ decode_calls' = decode_calls
                /\ decoded' = decoded
                /\ local' = local
                /\ pc' = "next_packet"]_vars

\* of two packets read one was appended and the other, of another track,
\* was skipped without reaching the decoder
C9_Witness ==
    /\ pc = "next_packet"
    /\ packets_read = 2
    /\ decode_calls = 1
    /\ Len(samples) > 0
    /\ sample_count > 0

\* C10: the step that handles a decoded buffer of an unsupported format
\* leaves the sample sequence unchanged, reports no error and takes the
\* producer back to requesting the next packet; a session that has seen
\* such a packet can only fail through a later packet or decode error.
C10_UnsupportedSkipped ==
    /\ [][pc = "normalize" /\ decoded.fmt \notin SupportedFormats
             /\ pc' # pc
             => /\ samples' = samples
                /\ local' = <<>>
                /\ sample_count' = sample_count
                /\ result' = "none"
                /\ pc' = "next_packet"]_vars
    /\ [](warnings > 0 /\ result \notin {"none", "ok"}
             => result \in {"failed to get packet",
                            "failed to decode packet"})

\* an unsupported packet was skipped, a later packet was appended and the
\* producer ended normally at end of stream
C10_Witness ==
    /\ warnings = 1
    /\ Len(samples) > 0
    /\ pc = "done_ok"
    /\ result = "ok"


\* C11: a failure other than end of stream never ends the producer
\* normally: whenever the loop is left through `break` (play is about to
\* return Ok) the error that ended it is the end of stream, and any other
\* error handed to the loop makes play return an error.
C11_OnlyEndOfStreamIsOk ==
    /\ (pc = "ret_ok" => err = EndOfStream)
    /\ (err \notin {NoError, EndOfStream} => pc = "drop_stream")

\* C12: once play() has returned an error no output stream exists, no
\* callback is in progress, and no later step writes a slot or moves the
\* cursor, whatever is still buffered.
C12_NoPlaybackAfterError ==
    /\ [](pc = "done_err"
             => /\ result \notin {"none", "ok"}
                /\ stream \in {"none", "dropped"}
                /\ cpc = "idle"
                /\ lock = "free")
    /\ [][pc = "done_err"
             => /\ delivered' = delivered
                /\ position' = position
                /\ callbacks' = callbacks
                /\ cpc' = "idle"]_vars

\* play() has returned a decode error while samples that were appended
\* have not been delivered
C12_Witness ==
    /\ pc = "done_err"
    /\ result = "failed to decode packet"
    /\ stream = "dropped"
    /\ Len(samples) > position
    /\ callbacks < MaxCallbacks


\* C13 (as claimed): after a fatal decode error the stream keeps playing:
\* the cursor eventually reaches the end of what was appended.
C13_BufferedPlaysOut ==
    [](result = "failed to decode packet" => <>(position = Len(samples)))

\* C13 (amended): after a fatal decode error, callbacks go on writing the
\* stored samples in order only until the stream is dropped; once play() has
\* returned the error the stream is gone, no callback runs and the cursor
\* stays where it is, so what was not delivered by then never is.
C13_BufferedDiscardedAfterError ==
    /\ [](result = "failed to decode packet" /\ pc = "done_err"
             => stream = "dropped" /\ cpc = "idle")
    /\ [][result = "failed to decode packet" /\ pc = "done_err"
             => position' = position /\ cpc' = "idle"]_vars
    /\ [][result = "failed to decode packet" /\ pc = "drop_stream"
             /\ slot' = slot + 1 /\ position < Len(samples)
             => /\ position' = position + 1
                /\ output' = Append(output, samples[position + 1])]_vars

\* play() has returned a decode error after part of the appended samples
\* was delivered; the rest stays undelivered
C13_Witness ==
    /\ result = "failed to decode packet"
    /\ pc = "done_err"
    /\ position > 0
    /\ position < Len(samples)
    /\ finished = FALSE

\* C14: session ordering.  The stream is built and started before the
\* producer requests its first packet (every packet request and every
\* decode happens while the stream is playing); play() returns Ok, with
\* the stream still alive, only after the producer has reached end of
\* stream; a device or stream failure aborts play() before any packet is
\* requested or decoded.
C14_SessionOrdering ==
    /\ [][packets_read' # packets_read \/ decode_calls' # decode_calls
             => stream = "playing" /\ stream' = "playing"]_vars
    /\ [][result' = "ok" /\ result # "ok"
             => /\ err = EndOfStream
                /\ stream = "playing" /\ stream' = "playing"
                /\ packet = NoPacket /\ local = <<>>]_vars
    /\ [](result \in {"no output device available",
                      "failed to build output stream",
                      "failed to play stream"}
             => packets_read = 0 /\ decode_calls = 0 /\ samples = <<>>)

\* C15: a decoded buffer of a supported format with F frames and C channels
\* appends exactly F*C samples, frame-major: the appended element at index
\* i*C + c is the normalized value of channel c at frame i.  (A buffer with
\* F*C = 0 appends nothing.)
C15_FrameMajorLayout ==
    /\ [][pc = "extend" /\ pc' = "next_packet"
             /\ decoded.fmt \in SupportedFormats
             => LET F == decoded.frames
                    C == decoded.channels
                IN  /\ Len(samples') = Len(samples) + F * C
                    /\ \A i \in 0..(F - 1), c \in 0..(C - 1) :
                          samples'[Len(samples) + i * C + c + 1] =
                              ConvertSample(decoded.fmt,
                                            decoded.chan[c + 1][i + 1])[1]]_vars
    /\ [][pc = "normalize" /\ pc' = "next_packet"
             /\ decoded.fmt \in SupportedFormats
             => decoded.frames * decoded.channels = 0 /\ samples' = samples]_vars

\* a two-frame stereo S24 buffer whose second and third samples differ has
\* been converted and appended
C15_Witness ==
    /\ pc = "next_packet"
    /\ fed = << <<"S24", 2, 2>> >>
    /\ Len(samples) = 4
    /\ samples[2] # samples[3]

\* the sums, over the buffers decode() returned, of frames * channels and
\* of frames (an entry of `fed` is <<fmt, frames, channels>>)
RECURSIVE SumSamples(_)
SumSamples(f) ==
    IF f = <<>> THEN 0 ELSE f[1][2] * f[1][3] + SumSamples(Tail(f))

RECURSIVE SumFrames(_)
SumFrames(f) == IF f = <<>> THEN 0 ELSE f[1][2] + SumFrames(Tail(f))

\* C16: when the producer has terminated and every selected-track packet
\* was decoded to a supported format, the buffer holds the sum of
\* frames * channels over those packets, whatever callbacks ran in between,
\* and the running frame total is the sum of their frame counts.
C16_EndToEndLength ==
    (/\ pc \in {"ret_ok", "done_ok"}
     /\ Len(fed) = decode_calls
     /\ \A i \in 1..Len(fed) : fed[i][1] \in SupportedFormats)
        => /\ Len(samples) = SumSamples(fed)
           /\ sample_count = SumFrames(fed)

\* play() has returned Ok after two packets of one and two channels were
\* decoded, while callbacks delivered part of the samples in between
C16_Witness ==
    /\ pc = "done_ok"
    /\ fed = << <<"U8", 1, 2>>, <<"S16", 2, 1>> >>
    /\ decode_calls = 2
    /\ Len(samples) = 4
    /\ sample_count = 3
    /\ callbacks = MaxCallbacks
    /\ position \in 1..3

\* the f32 x = m / 2^e lies in [-1.0, 1.0]; |m| <= 2^24, so that an
\* exponent above 24 leaves |x| < 1
InUnit(x) ==
    \/ x[2] > 24
    \/ (IF x[1] < 0 THEN -x[1] ELSE x[1]) <= 2 ^ x[2]

\* C17: every normalized value produced from an integer native format
\* (signed 16-bit, unsigned 8-bit, signed 32-bit, signed 24-bit) lies in
\* [-1.0, 1.0].
C17_NormalizedInUnitRange ==
    (pc \in {"lock", "extend"} /\ decoded.fmt \in {"S16", "U8", "S32", "S24"})
        => \A j \in 1..Len(local) : InUnit(local[j])

Abs(n) == IF n < 0 THEN -n ELSE n

\* a positive significand brought to 24 bits: <<M, E>> with M >= 2^23 and
\* M / 2^E = m / 2^e
RECURSIVE Lift(_, _)
Lift(m, e) == IF m >= F32Half THEN <<m, e>> ELSE Lift(2 * m, e + 1)

\* x = m / 2^e is v / 2147483648 within f32 rounding: x * 2^31 differs from
\* v by at most |v| / 2^24 (written without ever forming 2^31)
ScaledS32(v, x) ==
    IF v = MinI32 THEN x = <<-1, 0>>
    ELSE IF x[2] = 0
         THEN \/ x[1] = 0 /\ v = 0
              \/ x[1] = 1  /\ v > 0 /\ (MaxI32 - v) + 1 <= v \div F32Sig
              \/ x[1] = -1 /\ v < 0 /\ v - MinI32 <= (-v) \div F32Sig
         ELSE /\ x[2] <= 31
              /\ Abs(x[1]) < 2 ^ Min(x[2], 30)
              /\ Abs(x[1] * 2 ^ (31 - x[2]) - v) <= Abs(v) \div F32Sig

\* x is the f32 nearest to v / 8388607 (|v| <= 2^23): with |x| = M / 2^E,
\* M of 24 bits, |M * 8388607 - |v| * 2^E| <= 8388607 / 2, where
\* M * 8388607 = M * 2^23 - M and d = M - |v| * 2^(E - 23) is tiny
ScaledS24(v, x) ==
    IF v = 0 THEN x = Zero
    ELSE /\ (x[1] < 0) = (v < 0)
         /\ x[1] # 0
         /\ LET l == Lift(Abs(x[1]), x[2])
                 t == l[2] - 23
             IN  /\ l[1] <= F32Sig
                 /\ t \in 0..23
                 /\ LET d == l[1] - Abs(v) * 2 ^ t
                     IN  /\ Abs(d) <= 2
                         /\ 2 * Abs(d * F32Half - l[1]) < S24Scale

\* the slot value x is the documented scaling of native value v
Scaled(fmt, v, x) ==
    CASE fmt = "F32" -> x = v
      [] fmt = "S16" -> x[2] <= 15 /\ x[1] * 32768 = v * 2 ^ x[2]
      [] fmt = "U8"  -> x[2] <= 7 /\ x[1] * 128 = (v - 128) * 2 ^ x[2]
      [] fmt = "S32" -> ScaledS32(v, x)
      [] fmt = "S24" -> ScaledS24(v, x)

\* C18: normalization applies the documented scale per format: f32 passes
\* through unchanged, s16 v gives v/32768, u8 v gives (v-128)/128, s32 v
\* gives v/2147483648 and s24 v gives v/8388607 (as f32); so s16 16384
\* gives 0.5, u8 255 gives 0.9921875 and the s32 minimum gives exactly -1.0.
C18_DocumentedScale ==
    (pc \in {"lock", "extend"} /\ decoded.fmt \in SupportedFormats)
        => /\ Len(local) = decoded.frames * decoded.channels
           /\ \A i \in 0..(decoded.frames - 1), c \in 0..(decoded.channels - 1) :
                 LET v == decoded.chan[c + 1][i + 1]
                     x == local[i * decoded.channels + c + 1]
                 IN  /\ Scaled(decoded.fmt, v, x)
                     /\ (decoded.fmt = "S16" /\ v = 16384) => x = <<1, 1>>
                     /\ (decoded.fmt = "U8" /\ v = 255) => x = <<127, 7>>
                     /\ (decoded.fmt = "S32" /\ v = MinI32) => x = <<-1, 0>>

\* an s32 sample that `as f32` has to round (2^24 + 1) was converted to
\* 2^-7, about to be appended
C18_Witness ==
    /\ pc = "extend"
    /\ decoded.fmt = "S32"
    /\ decoded.chan = << <<16777217>> >>
    /\ local = << <<1, 7>> >>

\* C19: `finished` is false until the consumer writes a silence slot, which
\* it does only with the cursor at the end of the sequence; it is set by
\* exactly those writes and never reset, so in every state it is true iff a
\* silence slot has been emitted.  It stops nothing: with `finished` set, a
\* slot for which a sample is available still gets that sample.
C19_FinishedFlag ==
    /\ [](finished <=> \E i \in 1..Len(delivered) : IsSilenceEntry(delivered[i]))
    /\ [][finished' # finished
             => /\ ~finished /\ finished'
                /\ position = Len(samples)
                /\ delivered' = Append(delivered, <<"silence", Zero>>)]_vars
    /\ [][finished => finished']_vars
    /\ [][finished /\ slot' = slot + 1 /\ position < Len(samples)
             => /\ position' = position + 1
                /\ delivered' =
                      Append(delivered, <<"sample", samples[position + 1]>>)]_vars

\* a sample appended after `finished` was set has been delivered: a silence
\* slot is followed by a sample slot
C19_Witness ==
    /\ finished
    /\ \E i, j \in 1..Len(delivered) :
          /\ i < j
          /\ IsSilenceEntry(delivered[i])
          /\ IsSampleEntry(delivered[j])

\* C20: drain liveness.  Once play() has returned Ok (the caller holds the
\* handle, the stream lives) the sequence has its final length L; with the
\* callback invoked again and again with at least one slot, the cursor
\* eventually equals L and stays L for ever, and from then on every slot
\* written is 0.0.
C20_DrainLiveness ==
    /\ [](pc = "done_ok" => <>[](position = Len(samples)))
    /\ [][pc = "done_ok" => samples' = samples /\ stream' = "playing"]_vars
    /\ [][pc = "done_ok" /\ position = Len(samples)
             => /\ position' = position
                /\ slot' = slot + 1 => output' = Append(output, Zero)]_vars

\* after play() returned Ok with four non-zero samples stored, the cursor
\* has reached the end and a callback has filled two slots with 0.0
C20_Witness ==
    /\ pc = "done_ok"
    /\ fed = << <<"S16", 2, 1>>, <<"S16", 2, 1>> >>
    /\ Len(samples) = 4
    /\ position = 4
    /\ cpc = "fill"
    /\ output = <<Zero, Zero>>

=============================================================================
